---------------------------- MODULE Spec2Model ----------------------------
(***************************************************************************)
(* A model of saga_tools: the wrapper that renders a SLURM batch script    *)
(* from a cluster parameter file and a job parameter file and submits it   *)
(* with sbatch (src/saga_tools/slurm_run_python.py, spack.py, conda.py).   *)
(*                                                                         *)
(* Python values are tagged records (PyNone, PyStr, PyTuple, PyPath), so   *)
(* that bool(), Optional fields and a wrongly typed argument are modelled  *)
(* as the interpreter treats them.  A Python str that the code splits or   *)
(* joins is a sequence of atoms: "/" and "@" are one atom each, every      *)
(* other atom is a chunk of text holding neither.  A rendered text is a    *)
(* sequence of segments in which NL is the newline.                        *)
(***************************************************************************)
EXTENDS Integers, Sequences, FiniteSets, TLC

\* ------------------------------------------------------------- bounds
\* The longest job name, in atoms.
MaxJobNameLen == 5
\* The longest spack_packages list.
MaxPackages == 2

\* ------------------------------------------------------ Python values
PyNone == [t |-> "None"]
PyStr(s) == [t |-> "str", v |-> s]
PyTuple(s) == [t |-> "tuple", v |-> s]
PyPath(p) == [t |-> "path", v |-> p]
PyList(s) == [t |-> "list", v |-> s]

\* bool(x) for None, str, tuple and list.
Truthy(x) ==
    CASE x.t = "None" -> FALSE
      [] x.t = "str" -> x.v # ""
      [] x.t = "tuple" -> Len(x.v) > 0
      [] x.t = "list" -> Len(x.v) > 0
      [] OTHER -> TRUE

\* The outcome of a call: a returned value or a raised exception.
Ok(v) == [ok |-> TRUE, val |-> v]
Raise(kind) == [ok |-> FALSE, err |-> kind]

\* ------------------------------------------------------------ strings
SLASH == "/"
AT == "@"
NL == "\n"

RECURSIVE StrOf(_)
\* The text of an atom sequence.
StrOf(atoms) ==
    IF atoms = <<>> THEN "" ELSE Head(atoms) \o StrOf(Tail(atoms))

RECURSIVE Split(_, _)
\* str.split(sep): the pieces between the occurrences of sep, empty pieces kept.
Split(atoms, sep) ==
    IF \A i \in 1..Len(atoms) : atoms[i] # sep
    THEN <<atoms>>
    ELSE LET i == CHOOSE k \in 1..Len(atoms) :
                     atoms[k] = sep /\ \A j \in 1..(k - 1) : atoms[j] # sep
         IN  <<SubSeq(atoms, 1, i - 1)>> \o Split(SubSeq(atoms, i + 1, Len(atoms)), sep)

RECURSIVE JoinText(_, _)
\* sep.join(texts) for texts that are segment sequences.
JoinText(texts, sep) ==
    IF texts = <<>> THEN <<>>
    ELSE IF Len(texts) = 1 THEN texts[1]
    ELSE texts[1] \o sep \o JoinText(Tail(texts), sep)

RECURSIVE Lines(_)
\* The lines of a text: the segments between the newlines.
Lines(text) ==
    IF \A i \in 1..Len(text) : text[i] # NL
    THEN <<text>>
    ELSE LET i == CHOOSE k \in 1..Len(text) :
                     text[k] = NL /\ \A j \in 1..(k - 1) : text[j] # NL
         IN  <<SubSeq(text, 1, i - 1)>> \o Lines(SubSeq(text, i + 1, Len(text)))

\* ------------------------------------------------------------ pathlib
\* A PurePosixPath: its root ("", "/" or "//") and its components.
RECURSIVE LeadingSlashes(_)
LeadingSlashes(atoms) ==
    IF atoms # <<>> /\ Head(atoms) = SLASH THEN 1 + LeadingSlashes(Tail(atoms)) ELSE 0

RECURSIVE PathComponents(_)
\* The pieces of a split path string, without the empty ones and the "." ones.
PathComponents(pieces) ==
    IF pieces = <<>> THEN <<>>
    ELSE LET c == StrOf(Head(pieces))
         IN  (IF c = "" \/ c = "." THEN <<>> ELSE <<c>>) \o PathComponents(Tail(pieces))

PathParse(atoms) ==
    [root |-> LET n == LeadingSlashes(atoms)
              IN  IF n = 0 THEN "" ELSE IF n = 2 THEN "//" ELSE "/",
     parts |-> PathComponents(Split(atoms, SLASH))]

\* path / segment, and Path(path, segment): an absolute segment replaces the path.
PathJoin(path, atoms) ==
    LET seg == PathParse(atoms)
    IN  IF seg.root # "" THEN seg
        ELSE [root |-> path.root, parts |-> path.parts \o seg.parts]

RECURSIVE PathFold(_, _)
PathFold(path, args) ==
    IF args = <<>> THEN path
    ELSE PathFold(IF Head(args).t = "path"
                  THEN (IF Head(args).v.root # "" THEN Head(args).v
                        ELSE [root |-> path.root, parts |-> path.parts \o Head(args).v.parts])
                  ELSE PathJoin(path, Head(args).v),
                  Tail(args))

\* Path(*args): every argument must be a str or a path; anything else is a TypeError.
PathNew(args) ==
    IF \E i \in 1..Len(args) : args[i].t \notin {"str", "path"}
    THEN Raise("TypeError")
    ELSE Ok(PathFold([root |-> "", parts |-> <<>>], args))

RECURSIVE JoinParts(_)
JoinParts(parts) ==
    IF parts = <<>> THEN ""
    ELSE IF Len(parts) = 1 THEN parts[1]
    ELSE parts[1] \o SLASH \o JoinParts(Tail(parts))

\* str(path)
PathStr(path) ==
    IF path.root = "" /\ path.parts = <<>> THEN "." ELSE path.root \o JoinParts(path.parts)

\* path.parent
PathParent(path) ==
    IF path.parts = <<>> THEN path
    ELSE [root |-> path.root, parts |-> SubSeq(path.parts, 1, Len(path.parts) - 1)]


\* ----------------------------------------------------- the file system
\* The directories that exist when the run starts.
SpackRoot == [root |-> "/", parts |-> <<"opt", "spack">>]
CondaBase == [root |-> "/", parts |-> <<"opt", "conda">>]
LogBase == [root |-> "/", parts |-> <<"home", "fred", "logs">>]
MissingDir == [root |-> "/", parts |-> <<"missing">>]
ExistingDirs == {SpackRoot, CondaBase, LogBase}

\* ------------------------------------------------ vistautils.Parameters
\* A parameter mapping is a function from the keys present to their values;
\* `key in params` is key \in DOMAIN params.
\* params.string(key)
ParamString(params, key) ==
    IF key \in DOMAIN params THEN Ok(params[key]) ELSE Raise("ParameterError")

\* params.existing_directory(key)
ParamExistingDirectory(params, key) ==
    IF key \in DOMAIN params /\ params[key] \in ExistingDirs
    THEN Ok(params[key])
    ELSE Raise("ParameterError")

\* params.integer(key, default=default, valid_range=Range.at_least(least))
ParamInteger(params, key, default, least) ==
    IF key \notin DOMAIN params THEN Ok(default)
    ELSE IF params[key] >= least THEN Ok(params[key])
    ELSE Raise("ParameterError")

\* -------------------------------------------------------- SpackPackage
\* A parse that accepts a specifier without a version.
SpackPackageParseLenient(package_specifier) ==
    LET parts == Split(package_specifier, AT)
    IN  IF Len(parts) = 2
        THEN Ok([package_name |-> StrOf(parts[1]), version |-> StrOf(parts[2])])
        ELSE IF Len(parts) = 1
        THEN Ok([package_name |-> StrOf(parts[1]), version |-> ""])
        ELSE Raise("RuntimeError: package specifier")

\* SpackPackage.parse(package_specifier)
SpackPackageParse(package_specifier) ==
    LET parts == Split(package_specifier, AT)
    IN  IF Len(parts) = 2
        THEN Ok([package_name |-> StrOf(parts[1]), version |-> StrOf(parts[2])])
        ELSE Raise("RuntimeError: package specifier")

\* SpackPackage.__str__
SpackPackageStr(package) == package.package_name \o AT \o package.version

\* -------------------------------------------------- SpackConfiguration
SPACK_ROOT_PARAM == "spack_root"
SPACK_ENVIRONMENT_PARAM == "spack_environment"
SPACK_PACKAGES_PARAM == "spack_packages"

\* A test that accepts every object.
SpackPostInitAlwaysOk(spack_environment, spack_packages) == TRUE

\* The test of __attrs_post_init__: TRUE when the object is accepted.
SpackPostInitOk(spack_environment, spack_packages) ==
    Truthy(spack_environment) # Truthy(spack_packages)

\* SpackConfiguration(spack_root=..., spack_environment=..., spack_packages=...):
\* the attrs validators, then __attrs_post_init__.
SpackConfigurationNew(spack_root, spack_environment, spack_packages) ==
    IF \/ spack_root.t # "path"
       \/ spack_environment.t \notin {"None", "str"}
       \/ spack_packages.t \notin {"None", "tuple", "list"}
    THEN Raise("TypeError")
    ELSE IF ~SpackPostInitOk(spack_environment, spack_packages)
    THEN Raise("RuntimeError: environment or packages")
    ELSE Ok([t |-> "SpackConfiguration",
             spack_root |-> spack_root.v,
             spack_environment |-> spack_environment,
             spack_packages |-> spack_packages])

RECURSIVE ParseAll(_)
\* [SpackPackage.parse(s) for s in specifiers]: the first failure is raised.
ParseAll(specifiers) ==
    IF specifiers = <<>> THEN Ok(<<>>)
    ELSE LET first == SpackPackageParse(Head(specifiers))
         IN  IF ~first.ok THEN first
             ELSE LET rest == ParseAll(Tail(specifiers))
                  IN  IF ~rest.ok THEN rest ELSE Ok(<<first.val>> \o rest.val)

\* from_parameters without the test for both keys: the environment wins.
SpackFromParametersNoExclusion(params) ==
    IF SPACK_ENVIRONMENT_PARAM \in DOMAIN params
    THEN LET root == ParamExistingDirectory(params, SPACK_ROOT_PARAM)
         IN  IF ~root.ok THEN root
             ELSE SpackConfigurationNew(PyPath(root.val),
                                        PyStr(params[SPACK_ENVIRONMENT_PARAM]),
                                        PyTuple(<<>>))
    ELSE Ok(PyNone)

\* SpackConfiguration.from_parameters(params): Ok(PyNone) is a returned None.
SpackFromParameters(params) ==
    IF SPACK_ENVIRONMENT_PARAM \in DOMAIN params
    THEN IF SPACK_PACKAGES_PARAM \in DOMAIN params
         THEN Raise("RuntimeError: mutually exclusive")
         ELSE LET root == ParamExistingDirectory(params, SPACK_ROOT_PARAM)
              IN  IF ~root.ok THEN root
                  ELSE LET env == ParamString(params, SPACK_ENVIRONMENT_PARAM)
                       IN  IF ~env.ok THEN env
                           ELSE SpackConfigurationNew(PyPath(root.val), PyStr(env.val),
                                                      PyTuple(<<>>))
    ELSE IF SPACK_PACKAGES_PARAM \in DOMAIN params
    THEN IF SPACK_ENVIRONMENT_PARAM \in DOMAIN params
         THEN Raise("RuntimeError: mutually exclusive")
         ELSE LET root == ParamExistingDirectory(params, SPACK_ROOT_PARAM)
              IN  IF ~root.ok THEN root
                  ELSE LET packages == ParseAll(params[SPACK_PACKAGES_PARAM])
                       IN  IF ~packages.ok THEN packages
                           ELSE SpackConfigurationNew(PyPath(root.val), PyNone,
                                                      PyList(packages.val))
    ELSE Ok(PyNone)

\* SPACK_COMMON_TEMPLATE.format(spack_root=spack_root)
SPACK_COMMON_TEMPLATE(spack_root) ==
    <<NL, ". \"", PathStr(spack_root), "\"/share/spack/setup-env.sh", NL>>

\* SPACK_ENVIRONMENT_TEMPLATE.format(spack_environment=spack_environment)
SPACK_ENVIRONMENT_TEMPLATE(spack_environment) ==
    <<NL, "spack env activate ", spack_environment, NL>>

\* sbatch_lines with the packages loaded last first.
SpackSbatchLinesReversed(config) ==
    LET n == Len(config.spack_packages.v)
        config_lines ==
            IF Truthy(config.spack_environment)
            THEN SPACK_ENVIRONMENT_TEMPLATE(config.spack_environment.v)
            ELSE JoinText([i \in 1..n |->
                              <<"spack load ",
                                SpackPackageStr(config.spack_packages.v[n + 1 - i])>>],
                          <<NL>>)
    IN  JoinText(<<SPACK_COMMON_TEMPLATE(config.spack_root), config_lines, <<NL>>>>, <<NL>>)

\* SpackConfiguration.sbatch_lines()
SpackSbatchLines(config) ==
    LET config_lines ==
            IF Truthy(config.spack_environment)
            THEN SPACK_ENVIRONMENT_TEMPLATE(config.spack_environment.v)
            ELSE JoinText([i \in 1..Len(config.spack_packages.v) |->
                              <<"spack load ", SpackPackageStr(config.spack_packages.v[i])>>],
                          <<NL>>)
    IN  JoinText(<<SPACK_COMMON_TEMPLATE(config.spack_root), config_lines, <<NL>>>>, <<NL>>)

\* -------------------------------------------------- CondaConfiguration
CONDA_ENVIRONMENT_PARAM == "conda_environment"
CONDA_BASE_PATH_PARAM == "conda_base_path"

\* from_parameters keyed on the base path instead of the environment.
CondaFromParametersByBasePath(params) ==
    IF CONDA_BASE_PATH_PARAM \in DOMAIN params
    THEN LET base == ParamExistingDirectory(params, CONDA_BASE_PATH_PARAM)
         IN  IF ~base.ok THEN base
             ELSE LET env == ParamString(params, CONDA_ENVIRONMENT_PARAM)
                  IN  IF ~env.ok THEN env
                      ELSE Ok([t |-> "CondaConfiguration",
                               conda_base_path |-> base.val,
                               conda_environment |-> env.val])
    ELSE Ok(PyNone)

\* CondaConfiguration.from_parameters(params): Ok(PyNone) is a returned None.
CondaFromParameters(params) ==
    IF CONDA_ENVIRONMENT_PARAM \in DOMAIN params
    THEN LET base == ParamExistingDirectory(params, CONDA_BASE_PATH_PARAM)
         IN  IF ~base.ok THEN base
             ELSE LET env == ParamString(params, CONDA_ENVIRONMENT_PARAM)
                  IN  IF ~env.ok THEN env
                      ELSE Ok([t |-> "CondaConfiguration",
                               conda_base_path |-> base.val,
                               conda_environment |-> env.val])
    ELSE Ok(PyNone)

\* CONDA_SBATCH_TEMPLATE.format(...), which is CondaConfiguration.sbatch_lines()
CondaSbatchLines(config) ==
    <<NL, "source \"", PathStr(config.conda_base_path), "\"/etc/profile.d/conda.sh", NL,
      "conda activate ", config.conda_environment, NL>>


\* --------------------------------------------------- SlurmPythonRunner
\* SlurmPythonRunner._job_log_directory(job_name): path_components.extend([parts[:-1]])
\* appends the list parts[:-1] as ONE element, and Path(*path_components) receives it.
JobLogDirectory(log_base_directory, job_name) ==
    LET parts == Split(job_name, SLASH)
    IN  IF Len(parts) > 1
        THEN LET path_components ==
                     <<PyPath(log_base_directory)>>
                     \o <<PyList(SubSeq(parts, 1, Len(parts) - 1))>>
             IN  PathNew(path_components)
        ELSE Ok(log_base_directory)

\* _SLURM_MEMORY_UNITS
SLURM_MEMORY_UNITS ==
    [unit \in {"KILOBYTES", "MEGABYTES", "GIGABYTES", "TERABYTES"} |->
        CASE unit = "KILOBYTES" -> "K"
          [] unit = "MEGABYTES" -> "M"
          [] unit = "GIGABYTES" -> "G"
          [] unit = "TERABYTES" -> "T"]

\* _to_slurm_memory_string(memory_request)
ToSlurmMemoryString(memory_request) ==
    ToString(memory_request.amount) \o SLURM_MEMORY_UNITS[memory_request.unit]

\* The directive with the two branches exchanged.
AccountOrQosSwapped(partition) ==
    IF partition \in {"scavenge", "ephemeral"}
    THEN <<"#SBATCH --account=", partition>>
    ELSE <<"#SBATCH --qos=", partition>>

\* account_or_qos of run_entry_point
AccountOrQos(partition) ==
    IF partition \in {"scavenge", "ephemeral"}
    THEN <<"#SBATCH --qos=", partition>>
    ELSE <<"#SBATCH --account=", partition>>

\* SLURM_BATCH_TEMPLATE.format(**f)
SLURM_BATCH_TEMPLATE(f) ==
    <<"#!/usr/bin/env bash", NL, NL>>
    \o f.account_or_qos \o <<NL>>
    \o <<"#SBATCH --partition=", f.partition, NL>>
    \o <<"#SBATCH --job-name=", f.job_name, NL>>
    \o <<"#SBATCH --output=", f.stdout_log_path, NL>>
    \o <<"#SBATCH --mem=", f.memory_string, NL>>
    \o <<"#SBATCH --ntasks=1", NL>>
    \o <<"#SBATCH --gpus-per-task=", f.num_gpus, NL>>
    \o <<"#SBATCH --cpus-per-task=", f.num_cpus, NL>>
    \o <<NL>>
    \o <<"set -euo pipefail", NL>>
    \o <<NL>>
    \o <<"# This is needed because SLURM jobs are run from a non-interactive shell,", NL>>
    \o <<"# but conda expects PS1 (the prompt variable) to be set.", NL>>
    \o <<"if [[ -z ${PS1+x} ]]", NL>>
    \o <<"  then", NL>>
    \o <<"    export PS1=\"\"", NL>>
    \o <<"fi", NL>>
    \o <<NL>>
    \o f.conda_lines \o <<NL>>
    \o f.spack_lines \o <<NL>>
    \o <<NL>>
    \o <<"cd ", f.working_directory, NL>>
    \o <<"python -m ", f.entry_point, " ", f.param_file, NL>>

\* The text run_entry_point renders (lines 214-235), for a runner, the keyword
\* arguments a and the resolved log directory.
RenderScript(runner, a, job_log_directory) ==
    SLURM_BATCH_TEMPLATE(
        [partition |-> a.partition,
         account_or_qos |-> AccountOrQos(a.partition),
         job_name |-> StrOf(a.job_name),
         memory_string |-> ToSlurmMemoryString(a.memory_request),
         num_cpus |-> ToString(a.num_cpus),
         num_gpus |-> ToString(a.num_gpus),
         stdout_log_path |-> PathStr(PathJoin(job_log_directory, a.job_name \o <<".log">>)),
         spack_lines |-> IF runner.spack_config.t # "None"
                         THEN SpackSbatchLines(runner.spack_config) ELSE <<>>,
         conda_lines |-> IF runner.conda_config.t # "None"
                         THEN CondaSbatchLines(runner.conda_config) ELSE <<>>,
         working_directory |-> PathStr(a.working_directory),
         entry_point |-> StrOf(a.entry_point_name),
         param_file |-> PathStr(a.param_file)])

\* ------------------------------------------------------------- inputs
\* The mappings that hold key with one of values, or do not hold it.
OptSet(key, values) == {<<>>} \cup {key :> v : v \in values}

Merge(A, B) == {a @@ b : a \in A, b \in B}

\* The sequences over S of length lo..hi.
SeqsOf(S, lo, hi) == UNION {[1..n -> S] : n \in lo..hi}

Specifiers == {<<"cuda", AT, "9.0.176">>, <<"gcc", AT, "7.3.0">>, <<"gcc">>}
CondaParams ==
    Merge(OptSet(CONDA_ENVIRONMENT_PARAM, {"nlp"}),
          OptSet(CONDA_BASE_PATH_PARAM, {CondaBase, MissingDir}))
SpackParams ==
    Merge(OptSet(SPACK_ROOT_PARAM, {SpackRoot, MissingDir}),
          Merge(OptSet(SPACK_ENVIRONMENT_PARAM, {"", "senv"}),
                OptSet(SPACK_PACKAGES_PARAM, SeqsOf(Specifiers, 0, MaxPackages))))

JobNameAtoms == {"foo", "bar", SLASH}
JobNames == SeqsOf(JobNameAtoms, 1, MaxJobNameLen)
\* The job names of the runs of main.
JobNameSamples ==
    {<<"baz">>, <<"foo", SLASH, "baz">>, <<"foo", SLASH, "bar", SLASH, "baz">>}

Cwd == [root |-> "/", parts |-> <<"home", "fred">>]
WorkDir == [root |-> "/", parts |-> <<"work">>]
JobParamFile == [root |-> "/", parts |-> <<"home", "fred", "job.params">>]
ScriptPath == [root |-> "/", parts |-> <<"home", "fred", "scripts", "job.sbatch">>]
\* The directory tempfile.mkdtemp() makes.
TmpDir == [root |-> "/", parts |-> <<"tmp", "tmpdir">>]

\* MemoryAmount.parse(s), of vistautils, on the strings of the model.
MemoryParse(s) ==
    IF s = "4G" THEN Ok([amount |-> 4, unit |-> "GIGABYTES"])
    ELSE IF s = "512K" THEN Ok([amount |-> 512, unit |-> "KILOBYTES"])
    ELSE Raise("RuntimeError: memory")

\* ------------------------------------------------------ the file system
\* path is dir or lies below it.
IsUnder(path, dir) ==
    /\ path.root = dir.root
    /\ Len(path.parts) >= Len(dir.parts)
    /\ SubSeq(path.parts, 1, Len(dir.parts)) = dir.parts

RECURSIVE Ancestors(_)
\* path and the directories above it.
Ancestors(path) ==
    IF path.parts = <<>> THEN {path} ELSE {path} \cup Ancestors(PathParent(path))

\* TmpDirIfNecessary(path=path).__enter__(): a fresh temporary directory when path is
\* None, else path.mkdir(exist_ok=True, parents=True).
TmpDirEnter(fsys, path) ==
    IF path.t = "None"
    THEN [fs |-> [fsys EXCEPT !.dirs = @ \cup {TmpDir}],
          tmp |-> [t |-> "TmpDirIfNecessary", path |-> TmpDir, use_tmpdir |-> TRUE]]
    ELSE [fs |-> [fsys EXCEPT !.dirs = @ \cup Ancestors(path.v)],
          tmp |-> [t |-> "TmpDirIfNecessary", path |-> path.v, use_tmpdir |-> FALSE]]

\* An __exit__ that leaves the temporary directory behind.
TmpDirExitKeep(fsys, tmp) == fsys

\* TmpDirIfNecessary.__exit__(): shutil.rmtree of the directory it made itself.
TmpDirExit(fsys, tmp) ==
    IF tmp.use_tmpdir
    THEN [dirs |-> {d \in fsys.dirs : ~IsUnder(d, tmp.path)},
          files |-> {f \in fsys.files : ~IsUnder(f.path, tmp.path)}]
    ELSE fsys

\* path.write_text(content): the parent directory must exist.
WriteText(fsys, path, content) ==
    IF PathParent(path) \in fsys.dirs
    THEN Ok([fsys EXCEPT !.files =
                {f \in @ : f.path # path} \cup {[path |-> path, content |-> content]}])
    ELSE Raise("FileNotFoundError")


\* -------------------------------------------------------------- state
VARIABLES
    pc,                      \* where the run of main stands
    cluster_params,          \* the cluster parameters, as far as main has read them
    job_params,              \* the job parameters, as far as main has read them
    runner,                  \* the SlurmPythonRunner of main, field by field as it is made
    args,                    \* the arguments of run_entry_point evaluated so far
    job_log_directory,       \* run_entry_point's local
    tmp_dir,                 \* the TmpDirIfNecessary of run_entry_point
    slurm_script_path,       \* the path the script is written to
    slurm_template_content,  \* the rendered script
    fs,                      \* the directories and files that exist
    sbatch_calls,            \* the sbatch processes started, with their exit status
    stdout,                  \* what main printed
    error,                   \* the exception that ended the run, or "none"
    call,                    \* a call of one function of the library
    ret                      \* what that call returned or raised

mainVars == <<pc, cluster_params, job_params, runner, args, job_log_directory, tmp_dir,
              slurm_script_path, slurm_template_content, fs, sbatch_calls, stdout, error>>
libVars == <<call, ret>>
vars == <<mainVars, libVars>>
runVars == <<job_log_directory, tmp_dir, slurm_script_path, slurm_template_content, fs,
             sbatch_calls, stdout>>

Pending == [ok |-> FALSE, err |-> "pending"]

InitMain ==
    /\ pc = "conda_config"
    /\ cluster_params = <<>>
    /\ job_params = <<>>
    /\ runner = <<>>
    /\ args = <<>>
    /\ job_log_directory = PyNone
    /\ tmp_dir = PyNone
    /\ slurm_script_path = PyNone
    /\ slurm_template_content = <<>>
    /\ fs = [dirs |-> UNION {Ancestors(d) : d \in ExistingDirs \cup {Cwd}}, files |-> {}]
    /\ sbatch_calls = <<>>
    /\ stdout = <<>>
    /\ error = "none"

Init ==
    /\ InitMain
    /\ call = [op |-> "none"]
    /\ ret = Pending

\* The step at pc went through: on to the next one.
Proceed(to, newArgs) ==
    /\ pc' = to
    /\ args' = newArgs
    /\ error' = error

\* The step at pc raised: nothing catches it, main ends.
Abort(err) ==
    /\ pc' = "raised"
    /\ args' = args
    /\ error' = err

\* main, line 55, in SlurmPythonRunner.from_parameters, line 187:
\* conda_config=CondaConfiguration.from_parameters(params)
MainCondaConfig ==
    /\ pc = "conda_config"
    /\ \E p \in CondaParams :
          /\ cluster_params' = p
          /\ LET r == CondaFromParameters(p)
             IN  IF r.ok
                 THEN runner' = ("conda_config" :> r.val) /\ Proceed("spack_config", args)
                 ELSE runner' = runner /\ Abort(r.err)
    /\ UNCHANGED <<job_params, runVars, libVars>>

\* line 188: spack_config=SpackConfiguration.from_parameters(params)
MainSpackConfig ==
    /\ pc = "spack_config"
    /\ \E p \in SpackParams :
          /\ cluster_params' = cluster_params @@ p
          /\ LET r == SpackFromParameters(p)
             IN  IF r.ok
                 THEN runner' = runner @@ ("spack_config" :> r.val)
                      /\ Proceed("log_directory", args)
                 ELSE runner' = runner /\ Abort(r.err)
    /\ UNCHANGED <<job_params, runVars, libVars>>

\* lines 186 and 189: log_base_directory=params.creatable_directory("log_directory"),
\* and the runner is made
MainLogDirectory ==
    /\ pc = "log_directory"
    /\ \E p \in OptSet("log_directory", {LogBase}) :
          /\ cluster_params' = cluster_params @@ p
          /\ IF "log_directory" \in DOMAIN p
             THEN runner' = runner @@ ("log_base_directory" :> p["log_directory"])
                  /\ Proceed("entry_point", args)
             ELSE runner' = runner /\ Abort("ParameterError")
    /\ UNCHANGED <<job_params, runVars, libVars>>

\* main, lines 56-57: the job parameters are loaded, entry_point is read
MainEntryPoint ==
    /\ pc = "entry_point"
    /\ \E p \in OptSet("entry_point", {<<"pkg.module">>}) :
          /\ job_params' = p
          /\ LET r == ParamString(p, "entry_point")
             IN  IF r.ok
                 THEN Proceed("memory", ("entry_point_name" :> r.val)
                                         @@ ("param_file" :> JobParamFile))
                 ELSE Abort(r.err)
    /\ UNCHANGED <<cluster_params, runner, runVars, libVars>>

\* main, line 58: memory = MemoryAmount.parse(job_params.string("memory"))
MainMemory ==
    /\ pc = "memory"
    /\ \E p \in OptSet("memory", {"4G", "lots"}) :
          /\ job_params' = job_params @@ p
          /\ LET s == ParamString(p, "memory")
                 r == IF s.ok THEN MemoryParse(s.val) ELSE s
             IN  IF r.ok
                 THEN Proceed("partition", args @@ ("memory_request" :> r.val))
                 ELSE Abort(r.err)
    /\ UNCHANGED <<cluster_params, runner, runVars, libVars>>

\* main, line 62: partition=cluster_params.string("partition")
MainPartition ==
    /\ pc = "partition"
    /\ \E p \in OptSet("partition", {"gaia", "ephemeral", "scavenge"}) :
          /\ cluster_params' = cluster_params @@ p
          /\ LET r == ParamString(p, "partition")
             IN  IF r.ok
                 THEN Proceed("working_directory", args @@ ("partition" :> r.val))
                 ELSE Abort(r.err)
    /\ UNCHANGED <<job_params, runner, runVars, libVars>>

\* main, lines 63-64: the working directory, or the current directory
MainWorkingDirectory ==
    /\ pc = "working_directory"
    /\ \E p \in OptSet("working_directory", {WorkDir}) :
          /\ job_params' = job_params @@ p
          /\ Proceed("num_gpus",
                     args @@ ("working_directory" :>
                                 IF "working_directory" \in DOMAIN p
                                 THEN p["working_directory"] ELSE Cwd))
    /\ UNCHANGED <<cluster_params, runner, runVars, libVars>>

\* main, line 65: num_gpus, 0 by default and at least 0
MainNumGpus ==
    /\ pc = "num_gpus"
    /\ \E p \in OptSet("num_gpus", {-1, 1}) :
          /\ job_params' = job_params @@ p
          /\ LET r == ParamInteger(p, "num_gpus", 0, 0)
             IN  IF r.ok
                 THEN Proceed("num_cpus", args @@ ("num_gpus" :> r.val))
                 ELSE Abort(r.err)
    /\ UNCHANGED <<cluster_params, runner, runVars, libVars>>

\* main, line 66: num_cpus, 1 by default and at least 1
MainNumCpus ==
    /\ pc = "num_cpus"
    /\ \E p \in OptSet("num_cpus", {0, 2}) :
          /\ job_params' = job_params @@ p
          /\ LET r == ParamInteger(p, "num_cpus", 1, 1)
             IN  IF r.ok
                 THEN Proceed("job_name", args @@ ("num_cpus" :> r.val))
                 ELSE Abort(r.err)
    /\ UNCHANGED <<cluster_params, runner, runVars, libVars>>

\* main, line 67: job_name, the entry point by default
MainJobName ==
    /\ pc = "job_name"
    /\ \E p \in OptSet("job_name", JobNameSamples) :
          /\ job_params' = job_params @@ p
          /\ Proceed("echo_template",
                     args @@ ("job_name" :>
                                 IF "job_name" \in DOMAIN p
                                 THEN p["job_name"] ELSE args["entry_point_name"]))
    /\ UNCHANGED <<cluster_params, runner, runVars, libVars>>

\* main, line 69: echo_template, of the cluster parameters, False by default
MainEchoTemplate ==
    /\ pc = "echo_template"
    /\ \E p \in OptSet("echo_template", {TRUE}) :
          /\ cluster_params' = cluster_params @@ p
          /\ Proceed("slurm_script_path",
                     args @@ ("echo_template" :>
                                 IF "echo_template" \in DOMAIN p
                                 THEN p["echo_template"] ELSE FALSE))
    /\ UNCHANGED <<job_params, runner, runVars, libVars>>

\* main, line 70: slurm_script_path, None by default; run_entry_point is entered
MainSlurmScriptPath ==
    /\ pc = "slurm_script_path"
    /\ \E p \in OptSet("slurm_script_path", {ScriptPath}) :
          /\ job_params' = job_params @@ p
          /\ Proceed("run_log_directory",
                     args @@ ("slurm_script_path" :>
                                 IF "slurm_script_path" \in DOMAIN p
                                 THEN PyPath(p["slurm_script_path"]) ELSE PyNone))
    /\ UNCHANGED <<cluster_params, runner, runVars, libVars>>


\* run_entry_point, lines 208-209: the script directory and the log directory
RunJobLogDirectory ==
    /\ pc = "run_log_directory"
    /\ LET r == JobLogDirectory(runner.log_base_directory, args["job_name"])
       IN  IF r.ok
           THEN job_log_directory' = PyPath(r.val) /\ Proceed("run_enter", args)
           ELSE job_log_directory' = job_log_directory /\ Abort(r.err)
    /\ UNCHANGED <<cluster_params, job_params, runner, tmp_dir, slurm_script_path,
                   slurm_template_content, fs, sbatch_calls, stdout, libVars>>

\* run_entry_point, line 210: with temppathlib.TmpDirIfNecessary(path=...) as tmp_dir
RunEnterTmpDir ==
    /\ pc = "run_enter"
    /\ LET slurm_script_directory ==
               IF args["slurm_script_path"].t # "None"
               THEN PyPath(PathParent(args["slurm_script_path"].v)) ELSE PyNone
           entered == TmpDirEnter(fs, slurm_script_directory)
       IN  /\ fs' = entered.fs
           /\ tmp_dir' = entered.tmp
    /\ Proceed("run_write", args)
    /\ UNCHANGED <<cluster_params, job_params, runner, job_log_directory,
                   slurm_script_path, slurm_template_content, sbatch_calls, stdout,
                   libVars>>

\* run_entry_point, lines 211-238: the script is rendered and written.  The write
\* fails when the script's directory is missing, and may fail in the operating
\* system; the exception leaves the with block through __exit__.
RunRenderAndWrite ==
    /\ pc = "run_write"
    /\ \E io_ok \in BOOLEAN :
          LET path == IF args["slurm_script_path"].t # "None"
                      THEN args["slurm_script_path"].v
                      ELSE PathJoin(tmp_dir.path, args["job_name"] \o <<".sbatch">>)
              content == RenderScript(runner, args, job_log_directory.v)
              written == IF io_ok THEN WriteText(fs, path, content) ELSE Raise("OSError")
          IN  /\ slurm_script_path' = PyPath(path)
              /\ slurm_template_content' = content
              /\ IF written.ok
                 THEN fs' = written.val /\ Proceed("run_echo", args)
                 ELSE fs' = TmpDirExit(fs, tmp_dir) /\ Abort(written.err)
    /\ UNCHANGED <<cluster_params, job_params, runner, job_log_directory, tmp_dir,
                   sbatch_calls, stdout, libVars>>

\* run_entry_point, lines 239-240: the script is echoed when asked for
RunEcho ==
    /\ pc = "run_echo"
    /\ stdout' = IF args["echo_template"] THEN slurm_template_content ELSE stdout
    /\ Proceed("run_sbatch", args)
    /\ UNCHANGED <<cluster_params, job_params, runner, job_log_directory, tmp_dir,
                   slurm_script_path, slurm_template_content, fs, sbatch_calls, libVars>>

\* A submission that is tried a second time when sbatch fails.
SubmitRetrying(calls, argv, returncodes) ==
    IF returncodes[1] = 0
    THEN calls \o <<[argv |-> argv, returncode |-> returncodes[1]]>>
    ELSE calls \o <<[argv |-> argv, returncode |-> returncodes[1]],
                    [argv |-> argv, returncode |-> returncodes[2]]>>

\* subprocess.run(argv, check=True): one process; returncodes[1] is its exit status.
Submit(calls, argv, returncodes) ==
    calls \o <<[argv |-> argv, returncode |-> returncodes[1]]>>

\* run_entry_point, lines 241-245: sbatch is run and checked; the with block is left
\* through __exit__ on return and on CalledProcessError alike.
RunSbatch ==
    /\ pc = "run_sbatch"
    /\ \E returncodes \in [1..2 -> {0, 1}] :
          /\ sbatch_calls' = Submit(sbatch_calls, <<"sbatch", PathStr(slurm_script_path.v)>>,
                                    returncodes)
          /\ IF sbatch_calls'[Len(sbatch_calls')].returncode = 0
             THEN Proceed("returned", args)
             ELSE Abort("CalledProcessError")
    /\ fs' = TmpDirExit(fs, tmp_dir)
    /\ UNCHANGED <<cluster_params, job_params, runner, job_log_directory, tmp_dir,
                   slurm_script_path, slurm_template_content, stdout, libVars>>

Next ==
    \/ MainCondaConfig
    \/ MainSpackConfig
    \/ MainLogDirectory
    \/ MainEntryPoint
    \/ MainMemory
    \/ MainPartition
    \/ MainWorkingDirectory
    \/ MainNumGpus
    \/ MainNumCpus
    \/ MainJobName
    \/ MainEchoTemplate
    \/ MainSlurmScriptPath
    \/ RunJobLogDirectory
    \/ RunEnterTmpDir
    \/ RunRenderAndWrite
    \/ RunEcho
    \/ RunSbatch

Spec == Init /\ [][Next]_vars


\* ---------------------------------------- the library, function by function
\* The packages a caller may hand to the constructor.
Packages == {[package_name |-> "cuda", version |-> "9.0.176"],
             [package_name |-> "gcc", version |-> "7.3.0"]}

ConstructorCalls ==
    {[op |-> "SpackConfiguration", spack_root |-> PyPath(SpackRoot),
      spack_environment |-> e, spack_packages |-> ps] :
        e \in {PyNone, PyStr(""), PyStr("senv")},
        ps \in {PyNone} \cup {PyTuple(q) : q \in SeqsOf(Packages, 0, MaxPackages)}}

\* The configurations the constructor accepts.
ValidConfigurations ==
    {SpackConfigurationNew(c.spack_root, c.spack_environment, c.spack_packages).val :
        c \in {d \in ConstructorCalls :
                  SpackConfigurationNew(d.spack_root, d.spack_environment,
                                        d.spack_packages).ok}}

LibCalls ==
    ConstructorCalls
    \cup {[op |-> "SpackConfiguration.from_parameters", params |-> p] : p \in SpackParams}
    \cup {[op |-> "sbatch_lines", config |-> c] : c \in ValidConfigurations}
    \cup {[op |-> "_job_log_directory", log_base_directory |-> LogBase, job_name |-> n] :
             n \in JobNames}

InitLib ==
    /\ InitMain
    /\ call \in LibCalls
    /\ ret = Pending

\* SpackConfiguration(spack_root=..., spack_environment=..., spack_packages=...)
LibSpackConfiguration ==
    /\ call.op = "SpackConfiguration"
    /\ ret = Pending
    /\ ret' = SpackConfigurationNew(call.spack_root, call.spack_environment,
                                    call.spack_packages)
    /\ UNCHANGED <<call, mainVars>>

\* SpackConfiguration.from_parameters(params)
LibSpackFromParameters ==
    /\ call.op = "SpackConfiguration.from_parameters"
    /\ ret = Pending
    /\ ret' = SpackFromParameters(call.params)
    /\ UNCHANGED <<call, mainVars>>

\* config.sbatch_lines()
LibSbatchLines ==
    /\ call.op = "sbatch_lines"
    /\ ret = Pending
    /\ ret' = Ok(SpackSbatchLines(call.config))
    /\ UNCHANGED <<call, mainVars>>

\* runner._job_log_directory(job_name)
LibJobLogDirectory ==
    /\ call.op = "_job_log_directory"
    /\ ret = Pending
    /\ ret' = JobLogDirectory(call.log_base_directory, call.job_name)
    /\ UNCHANGED <<call, mainVars>>

NextLib ==
    \/ LibSpackConfiguration
    \/ LibSpackFromParameters
    \/ LibSbatchLines
    \/ LibJobLogDirectory

SpecLib == InitLib /\ [][NextLib]_vars


\* ------------------------------------------------------------- claims
\* The library call of the state has returned or raised.
Returned == ret.ok \/ ret.err # "pending"

\* A field that holds a non-empty environment name / a non-empty package sequence.
HoldsEnvironment(x) == x.t = "str" /\ x.v # ""
HoldsPackages(x) == x.t \in {"tuple", "list"} /\ x.v # <<>>

\* C1: every SpackConfiguration that is constructed, directly or through
\* from_parameters, holds exactly one of a non-empty environment name and a
\* non-empty package sequence; a direct construction with both or with neither
\* raises and yields no object.
C1_ExactlyOneOfEnvironmentAndPackages ==
    Returned =>
        /\ (/\ call.op \in {"SpackConfiguration", "SpackConfiguration.from_parameters"}
            /\ ret.ok
            /\ ret.val.t = "SpackConfiguration")
           => (HoldsEnvironment(ret.val.spack_environment)
               # HoldsPackages(ret.val.spack_packages))
        /\ (/\ call.op = "SpackConfiguration"
            /\ HoldsEnvironment(call.spack_environment)
               = HoldsPackages(call.spack_packages))
           => (~ret.ok /\ ret.err = "RuntimeError: environment or packages")

\* C1 witness: a direct construction with two packages and no environment succeeded.
C1_Witness ==
    /\ call.op = "SpackConfiguration"
    /\ ret.ok
    /\ call.spack_environment.t = "None"
    /\ call.spack_packages.t = "tuple"
    /\ Len(call.spack_packages.v) = 2

\* C2: from_parameters on a mapping that holds both spack_environment and
\* spack_packages raises the mutually-exclusive error, whatever the values and
\* whether or not spack_root is present or an existing directory.
C2_BothKeysAreMutuallyExclusive ==
    (/\ call.op = "SpackConfiguration.from_parameters"
     /\ Returned
     /\ SPACK_ENVIRONMENT_PARAM \in DOMAIN call.params
     /\ SPACK_PACKAGES_PARAM \in DOMAIN call.params)
    => (~ret.ok /\ ret.err = "RuntimeError: mutually exclusive")

\* C2 witness: both keys, no spack_root and a malformed specifier: the call has
\* raised.
C2_Witness ==
    /\ call.op = "SpackConfiguration.from_parameters"
    /\ Returned
    /\ SPACK_ENVIRONMENT_PARAM \in DOMAIN call.params
    /\ SPACK_PACKAGES_PARAM \in DOMAIN call.params
    /\ SPACK_ROOT_PARAM \notin DOMAIN call.params
    /\ call.params[SPACK_PACKAGES_PARAM] = <<(<<"gcc">>)>>

\* The directory the documentation of _job_log_directory promises: the base
\* directory, then every component of the job name but the last.
DocumentedLogDirectory(log_base_directory, job_name) ==
    LET parts == Split(job_name, SLASH)
    IN  IF Len(parts) = 1 THEN log_base_directory
        ELSE PathFold(log_base_directory,
                      [i \in 1..(Len(parts) - 1) |-> PyStr(parts[i])])

\* C3: _job_log_directory never fails; for a job name of one component it returns
\* log_base_directory, for more components log_base_directory joined with every
\* component but the last, in order.
C3_JobLogDirectoryAsDocumented ==
    (call.op = "_job_log_directory" /\ Returned)
    => (/\ ret.ok
        /\ ret.val = DocumentedLogDirectory(call.log_base_directory, call.job_name))


\* main has called run_entry_point / run_entry_point has returned or raised.
RunEntered == "slurm_script_path" \in DOMAIN args
RunFinished == RunEntered /\ pc \in {"returned", "raised"}
\* run_entry_point is past the rendering of the script (or has ended).
PastRendering == RunEntered /\ pc \notin {"run_log_directory", "run_enter", "run_write"}

\* The lines of a text that begin with the segment first.
LinesFrom(text, first) == SelectSeq(Lines(text), LAMBDA l : l # <<>> /\ l[1] = first)

\* The log file the documentation promises for a job name: below the base
\* directory, one directory per component but the last, then <last component>.log.
DocumentedLogFile(log_base_directory, job_name) ==
    LET parts == Split(job_name, SLASH)
    IN  PathStr(DocumentedLogDirectory(log_base_directory, job_name))
        \o SLASH \o StrOf(parts[Len(parts)]) \o ".log"

\* C4: the script run_entry_point renders has one "#SBATCH --output=" line, and its
\* path is the log directory joined with <last component of the job name>.log, so
\* that every component of the job name appears once; this for every job name.
C4_OutputPathNamesEachComponentOnce ==
    PastRendering =>
        /\ slurm_template_content # <<>>
        /\ LinesFrom(slurm_template_content, "#SBATCH --output=")
           = <<(<<"#SBATCH --output=",
                  DocumentedLogFile(runner.log_base_directory, args["job_name"])>>)>>

\* C5: without a caller-supplied script path, the temporary directory is gone when
\* run_entry_point has ended, however it ended; with a supplied path no temporary
\* directory is made, and the script's directory and the script, once written,
\* are there when run_entry_point has ended, also after a failure of sbatch.
C5_TemporaryDirectoryIsScoped ==
    RunFinished =>
        /\ TmpDir \notin fs.dirs
        /\ \A f \in fs.files : ~IsUnder(f.path, TmpDir)
        /\ args["slurm_script_path"].t # "None" =>
              /\ tmp_dir.t # "None" =>
                    /\ ~tmp_dir.use_tmpdir
                    /\ PathParent(args["slurm_script_path"].v) \in fs.dirs
              /\ (pc = "returned" \/ error = "CalledProcessError") =>
                    [path |-> args["slurm_script_path"].v,
                     content |-> slurm_template_content] \in fs.files

\* C5 witness: no script path was supplied, the temporary directory was made,
\* sbatch failed, and run_entry_point has ended.
C5_Witness ==
    /\ RunFinished
    /\ args["slurm_script_path"].t = "None"
    /\ tmp_dir.t # "None"
    /\ tmp_dir.use_tmpdir
    /\ error = "CalledProcessError"

\* C6: sbatch is started at most once in a run; when it exits non-zero the run ends
\* with the error of that exit, and the run returns only after one sbatch that
\* exited with status zero.
C6_OneSubmissionNoRetry ==
    /\ Len(sbatch_calls) <= 1
    /\ pc = "returned" => (Len(sbatch_calls) = 1 /\ sbatch_calls[1].returncode = 0)
    /\ (Len(sbatch_calls) >= 1 /\ sbatch_calls[1].returncode # 0)
       => (pc = "raised" /\ error = "CalledProcessError")

\* C6 witness: sbatch was started once, exited non-zero, and the run has ended with
\* that error.
C6_Witness ==
    /\ Len(sbatch_calls) = 1
    /\ sbatch_calls[1].returncode # 0
    /\ pc = "raised"

\* Nothing of run_entry_point has happened: no temporary directory, no script
\* file, no sbatch.
NoSideEffects ==
    /\ tmp_dir.t = "None"
    /\ TmpDir \notin fs.dirs
    /\ fs.files = {}
    /\ sbatch_calls = <<>>

ConfigurationErrors ==
    {"RuntimeError: mutually exclusive", "RuntimeError: environment or packages",
     "RuntimeError: package specifier"}
ValidationErrors == {"ParameterError", "RuntimeError: memory"}

\* The two parameter files, as far as they are read, hold none of the faults of C7.
InputsValid ==
    /\ ~(/\ SPACK_ENVIRONMENT_PARAM \in DOMAIN cluster_params
         /\ SPACK_PACKAGES_PARAM \in DOMAIN cluster_params)
    /\ SPACK_ENVIRONMENT_PARAM \in DOMAIN cluster_params
       => (/\ cluster_params[SPACK_ENVIRONMENT_PARAM] # ""
           /\ SPACK_ROOT_PARAM \in DOMAIN cluster_params
           /\ cluster_params[SPACK_ROOT_PARAM] \in ExistingDirs)
    /\ SPACK_PACKAGES_PARAM \in DOMAIN cluster_params
       => (/\ cluster_params[SPACK_PACKAGES_PARAM] # <<>>
           /\ \A i \in 1..Len(cluster_params[SPACK_PACKAGES_PARAM]) :
                 LET specifier == cluster_params[SPACK_PACKAGES_PARAM][i]
                 IN  Cardinality({k \in 1..Len(specifier) : specifier[k] = AT}) = 1
           /\ SPACK_ROOT_PARAM \in DOMAIN cluster_params
           /\ cluster_params[SPACK_ROOT_PARAM] \in ExistingDirs)
    /\ CONDA_ENVIRONMENT_PARAM \in DOMAIN cluster_params
       => (/\ CONDA_BASE_PATH_PARAM \in DOMAIN cluster_params
           /\ cluster_params[CONDA_BASE_PATH_PARAM] \in ExistingDirs)
    /\ "entry_point" \in DOMAIN job_params
    /\ "memory" \in DOMAIN job_params
    /\ "num_gpus" \in DOMAIN job_params => job_params["num_gpus"] >= 0
    /\ "num_cpus" \in DOMAIN job_params => job_params["num_cpus"] >= 1

\* C7: a run of main that ends with a configuration error or a validation error has
\* made no temporary directory, written no script and started no sbatch; and one
\* that has done any of these read parameter files with none of those faults.
C7_ErrorsComeBeforeAnySideEffect ==
    /\ (pc = "raised" /\ error \in ConfigurationErrors \cup ValidationErrors)
       => NoSideEffects
    /\ ~NoSideEffects => InputsValid

\* C7 witness: num_cpus, read late in main, was out of range and ended the run.
C7_Witness ==
    /\ pc = "raised"
    /\ error = "ParameterError"
    /\ "num_cpus" \in DOMAIN job_params
    /\ job_params["num_cpus"] < 1
    /\ NoSideEffects

\* C8: the rendered script holds exactly one line that is a --qos or an --account
\* directive; it is "#SBATCH --qos=<partition>" when the partition is ephemeral
\* or scavenge and "#SBATCH --account=<partition>" otherwise.
C8_QosOrAccountByPartition ==
    slurm_template_content # <<>> =>
        LET qos == LinesFrom(slurm_template_content, "#SBATCH --qos=")
            account == LinesFrom(slurm_template_content, "#SBATCH --account=")
        IN  IF args["partition"] = "ephemeral" \/ args["partition"] = "scavenge"
            THEN qos = <<(<<"#SBATCH --qos=", args["partition"]>>)>> /\ account = <<>>
            ELSE account = <<(<<"#SBATCH --account=", args["partition"]>>)>> /\ qos = <<>>

\* C8 witness: a script was rendered for the partition scavenge.
C8_Witness ==
    /\ slurm_template_content # <<>>
    /\ args["partition"] = "scavenge"


\* CondaConfiguration.from_parameters has been called in this run and returned a
\* configuration.
HasCondaConfiguration ==
    "conda_config" \in DOMAIN runner /\ runner["conda_config"].t = "CondaConfiguration"

\* The places of the lines of a text that equal line.
PlacesOf(text, line) ==
    LET lines == Lines(text)
    IN  {i \in 1..Len(lines) : lines[i] = line}

\* The rendered script holds the conda.sh line and, later, the conda activate line
\* when the runner has a CondaConfiguration, and no such line when it has none.
CondaLinesFollowConfiguration ==
    slurm_template_content # <<>> =>
        IF HasCondaConfiguration
        THEN LET config == runner["conda_config"]
                 source == PlacesOf(slurm_template_content,
                                    <<"source \"", PathStr(config.conda_base_path),
                                      "\"/etc/profile.d/conda.sh">>)
                 activate == PlacesOf(slurm_template_content,
                                      <<"conda activate ", config.conda_environment>>)
             IN  /\ Cardinality(source) = 1
                 /\ Cardinality(activate) = 1
                 /\ \A i \in source : \A j \in activate : i < j
        ELSE /\ LinesFrom(slurm_template_content, "source \"") = <<>>
             /\ LinesFrom(slurm_template_content, "conda activate ") = <<>>

\* C9 as stated: from_parameters yields a configuration if and only if the
\* conda_environment key is present, and the conda lines follow the configuration.
C9_ConfigurationIffEnvironmentKey ==
    /\ pc # "conda_config"
       => (HasCondaConfiguration <=> CONDA_ENVIRONMENT_PARAM \in DOMAIN cluster_params)
    /\ CondaLinesFollowConfiguration

\* C9 amended: from_parameters yields a configuration if and only if the
\* conda_environment key is present and conda_base_path is an existing directory;
\* with the key and without such a base path it raises the validation error; without
\* the key it returns None and raises nothing, whatever conda_base_path is; and
\* the conda lines follow the configuration.
C9_ConfigurationIffEnvironmentKeyAndBasePath ==
    /\ pc # "conda_config" =>
          LET keyed == CONDA_ENVIRONMENT_PARAM \in DOMAIN cluster_params
              based == /\ CONDA_BASE_PATH_PARAM \in DOMAIN cluster_params
                       /\ cluster_params[CONDA_BASE_PATH_PARAM] \in ExistingDirs
          IN  /\ HasCondaConfiguration <=> (keyed /\ based)
              /\ (keyed /\ ~based) => (pc = "raised" /\ error = "ParameterError")
              /\ ~keyed => (/\ "conda_config" \in DOMAIN runner
                            /\ runner["conda_config"].t = "None")
    /\ CondaLinesFollowConfiguration

\* C9 witness: a script was rendered by a runner that has a CondaConfiguration.
C9_Witness ==
    /\ slurm_template_content # <<>>
    /\ HasCondaConfiguration

\* C10: sbatch_lines of a valid configuration holds the setup-env.sh line once and
\* before every other spack line; with an environment, one
\* "spack env activate <environment>" line and no "spack load" line; with
\* packages, the lines "spack load <name>@<version>", one per package in the order
\* of the packages, and no "spack env activate" line.
C10_SbatchLinesOfSpackConfiguration ==
    (call.op = "sbatch_lines" /\ Returned) =>
        LET config == call.config
            text == ret.val
            setup == PlacesOf(text, <<". \"", PathStr(config.spack_root),
                                      "\"/share/spack/setup-env.sh">>)
            lines == Lines(text)
            spack == {i \in 1..Len(lines) :
                         /\ lines[i] # <<>>
                         /\ lines[i][1] \in {"spack env activate ", "spack load "}}
            activate == LinesFrom(text, "spack env activate ")
            load == LinesFrom(text, "spack load ")
        IN  /\ Cardinality(setup) = 1
            /\ \A i \in setup : \A j \in spack : i < j
            /\ IF HoldsEnvironment(config.spack_environment)
               THEN /\ activate = <<(<<"spack env activate ", config.spack_environment.v>>)>>
                    /\ load = <<>>
               ELSE /\ load = [i \in 1..Len(config.spack_packages.v) |->
                                  <<"spack load ",
                                    config.spack_packages.v[i].package_name \o "@"
                                    \o config.spack_packages.v[i].version>>]
                    /\ activate = <<>>

\* C10 witness: sbatch_lines has returned for a configuration with two different
\* packages.
C10_Witness ==
    /\ call.op = "sbatch_lines"
    /\ Returned
    /\ call.config.spack_environment.t = "None"
    /\ Len(call.config.spack_packages.v) = 2
    /\ call.config.spack_packages.v[1] # call.config.spack_packages.v[2]


\* The script path the documentation gives when the caller supplies none:
\* <job name>.sbatch inside the temporary directory.
DocumentedScriptPath(job_name) == PathStr(TmpDir) \o SLASH \o StrOf(job_name) \o ".sbatch"

\* C11: for every job name, also one with "/", a run_entry_point without a supplied
\* script path writes the whole rendered script to <job name>.sbatch inside the
\* fresh temporary directory before sbatch is started, starts sbatch exactly once
\* with the path of that file, and the write never fails for a missing parent
\* directory.
C11_ScriptWrittenToTmpThenSubmitted ==
    (RunEntered /\ args["slurm_script_path"].t = "None") =>
        /\ error # "FileNotFoundError"
        /\ pc = "run_sbatch" =>
              /\ sbatch_calls = <<>>
              /\ PathStr(slurm_script_path.v) = DocumentedScriptPath(args["job_name"])
              /\ [path |-> slurm_script_path.v, content |-> slurm_template_content]
                 \in fs.files
        /\ (pc \in {"returned", "raised"} /\ error # "OSError") =>
              /\ tmp_dir.t # "None"
              /\ tmp_dir.use_tmpdir
              /\ Len(sbatch_calls) = 1
              /\ sbatch_calls[1].argv
                 = <<"sbatch", DocumentedScriptPath(args["job_name"])>>

=============================================================================
